---- MODULE Spec2Model ----
(***************************************************************************)
(* Model of the MFuSes Moleculer service wrapper (src/unnamed/part_000,    *)
(* the current version of the module; part_001 and index.js are its        *)
(* predecessors).  The module resolves the service configuration from a    *)
(* hierarchical configuration store, builds and starts the service broker, *)
(* optionally attaches the web gateway, and exports the call / emit /      *)
(* broadcast helpers.                                                      *)
(***************************************************************************)
EXTENDS Integers, Sequences, FiniteSets, TLC

VARIABLES
  store,          \* the configuration store read through config.has / config.get
  pc,             \* position of the module initialisation code
  alias,          \* branch of the alias if / else-if / else chain that was taken
  serviceConfig,  \* let serviceConfig
  loggerSettings, \* let loggerSettings
  webApiSettings, \* let webApiSettings
  broker,         \* const broker, the Moleculer.ServiceBroker instance
  gateway,        \* outcome of the moleculer-web attachment block
  uncaught,       \* exception that left the module initialisation, if any
  steps,          \* initialisation statements executed so far, in order
  logs,           \* entries written through the mfuses-moleculer context logger
  childBindings,  \* bindings the logger factory handed to serviceLogger.child
  heap,           \* JavaScript objects of the caller and of the facade, by identity
  promises,       \* promises created by broker.call and by callResult.catch
  microtasks,     \* the promise job queue
  invocations,    \* invocations of mfusesHelper.call / emit / broadcast
  brokerOps,      \* invocations of broker.call / broker.emit / broker.broadcast
  mutations,      \* writes the broker performed on objects it was handed
  observed        \* what the caller's handlers saw, per invocation

vars == << store, pc, alias, serviceConfig, loggerSettings, webApiSettings, broker,
           gateway, uncaught, steps, logs, childBindings, heap, promises,
           microtasks, invocations, brokerOps, mutations, observed >>

startupVars == << store, pc, alias, serviceConfig, loggerSettings, webApiSettings,
                  broker, gateway, uncaught, steps >>

facadeVars == << heap, promises, microtasks, invocations, brokerOps, mutations,
                 observed >>

----------------------------------------------------------------------------
(* JavaScript values.  Every value carries its type, so that a string, a   *)
(* number, a boolean, a nested mapping and a function stay distinguishable. *)

Str(s) == [kind |-> "str", s |-> s]
Num(n) == [kind |-> "num", n |-> n]
Bool(b) == [kind |-> "bool", b |-> b]
Fn(name) == [kind |-> "fn", name |-> name]
Map(f) == [kind |-> "map", ent |-> f]
Ref(id) == [kind |-> "ref", id |-> id]
Undefined == [kind |-> "undefined"]
EmptyMap == Map(<<>>)

\* JavaScript truthiness, as used by `config.has(k) && config.get(k)`
Truthy(v) ==
  CASE v.kind = "bool" -> v.b
    [] v.kind = "str" -> v.s # ""
    [] v.kind = "num" -> v.n # 0
    [] v.kind = "undefined" -> FALSE
    [] OTHER -> TRUE

\* config.has(path): the value at the dotted path is not undefined
RECURSIVE Has(_, _)
Has(t, path) ==
  IF path = <<>> THEN TRUE
  ELSE /\ t.kind = "map"
       /\ Head(path) \in DOMAIN t.ent
       /\ Has(t.ent[Head(path)], Tail(path))

\* config.get(path), used only where config.has(path) holds
RECURSIVE Get(_, _)
Get(t, path) ==
  IF path = <<>> THEN t ELSE Get(t.ent[Head(path)], Tail(path))

\* A shallow merge: a nested mapping of the source replaces the target's.
MergeShallow(obj, src) ==
  Map([k \in DOMAIN obj.ent \cup DOMAIN src.ent |->
         IF k \in DOMAIN src.ent THEN src.ent[k] ELSE obj.ent[k]])

\* lodash.mergeWith(object, source) without customizer, i.e. lodash.merge:
\* own keys of source are assigned into object, nested mappings recursively
RECURSIVE Merge(_, _)
Merge(obj, src) ==
  Map([k \in DOMAIN obj.ent \cup DOMAIN src.ent |->
         IF k \notin DOMAIN src.ent THEN obj.ent[k]
         ELSE IF src.ent[k].kind = "map"
              THEN IF k \in DOMAIN obj.ent /\ obj.ent[k].kind = "map"
                   THEN Merge(obj.ent[k], src.ent[k])
                   ELSE Merge(EmptyMap, src.ent[k])
              ELSE src.ent[k]])

----------------------------------------------------------------------------
(* Defaults of the module *)

DefaultServiceConfig ==
  Map(("namespace" :> Str("MFuSes-default")) @@
      ("transporter" :> Str("TCP")) @@
      ("registry" :> Map("strategy" :> Str("Random"))))

DefaultWebApiSettings ==
  Map(("port" :> Num(8080)) @@ ("path" :> Str("/srvapi")))

DefaultLoggerSettings == EmptyMap

NoBroker == [constructed |-> FALSE, options |-> EmptyMap, started |-> FALSE,
             services |-> <<>>]

----------------------------------------------------------------------------
(* Configuration stores the host application may have populated.  Each     *)
(* alias root is absent or holds one of a few records; the values under a  *)
(* root are tagged with the root so that their origin stays visible.       *)

RootRecords(tag) ==
  { EmptyMap,
    Map(("config" :> Map("namespace" :> Str(tag))) @@
        ("enableWebApi" :> Bool(TRUE))),
    Map(("logger" :> Map("level" :> Str("debug-" \o tag))) @@
        ("enableWebApi" :> Bool(FALSE))),
    Map(("config" :> Map(("transporter" :> Map("type" :> Str("NATS"))) @@
                         ("registry" :> Map("preferLocal" :> Bool(FALSE))))) @@
        ("logger" :> Map("name" :> Str(tag))) @@
        ("webApiSettings" :> Map("port" :> Num(8000))) @@
        ("enableWebApi" :> Bool(TRUE))),
    Map(("config" :> Map(("namespace" :> Str(tag)) @@
                         ("registry" :> Str("RoundRobin")))) @@
        ("logger" :> Map("level" :> Str("warn-" \o tag))) @@
        ("webApiSettings" :> Map("path" :> Str("/" \o tag)))) }

RootChoices(tag) == {Undefined} \cup RootRecords(tag)

StoreOf(m, u, s) ==
  Map([k \in {r \in {"mfuses", "usMoleculer", "mol-service"} :
                (CASE r = "mfuses" -> m [] r = "usMoleculer" -> u [] OTHER -> s)
                   # Undefined} |->
         CASE k = "mfuses" -> m [] k = "usMoleculer" -> u [] OTHER -> s])

ConfigStores ==
  { StoreOf(m, u, s) : m \in RootChoices("mfuses"),
                       u \in RootChoices("usMoleculer"),
                       s \in RootChoices("mol-service") }

----------------------------------------------------------------------------
(* Module initialisation *)

LogEntry(level, msg, about) == [level |-> level, msg |-> msg, about |-> about]

\* The if / else-if / else chain tested the roots in the wrong order.
AliasBranchOldestFirst(s) ==
  IF Has(s, <<"mol-service">>) THEN "mol-service"
  ELSE IF Has(s, <<"usMoleculer">>) THEN "usMoleculer"
  ELSE "mfuses"

\* Which branch of the if / else-if / else chain runs
AliasBranch(s) ==
  IF Has(s, <<"mfuses">>) THEN "mfuses"
  ELSE IF Has(s, <<"usMoleculer">>) THEN "usMoleculer"
  ELSE "mol-service"

\* `if (config.has(root.key)) target = lodash.mergeWith(target, config.get(root.key))`
MergeFromStore(target, s, root, key) ==
  IF Has(s, <<root, key>>) THEN Merge(target, Get(s, <<root, key>>)) ELSE target

\* The warning every branch but the mfuses one starts with
DeprecationWarnings(branch) ==
  IF branch = "mfuses" THEN <<>>
  ELSE << LogEntry("warn",
                   "The '" \o branch \o
                     "' configuration entry is deprecated, use 'mfuses' instead",
                   branch) >>

\* The statements run in a different order: the broker is built before the
\* logger factory is put on the record.
AfterLoggerLate(p) ==
  CASE p = "resolve" -> "construct"
    [] p = "construct" -> "logger"
    [] p = "logger" -> "start"
    [] p = "start" -> "gateway"
    [] OTHER -> "done"

\* Statement order of the module body
After(p) ==
  CASE p = "resolve" -> "logger"
    [] p = "logger" -> "construct"
    [] p = "construct" -> "start"
    [] p = "start" -> "gateway"
    [] OTHER -> "done"

\* The two merges of the branch taken, preceded by its deprecation warning
ResolveConfig ==
  /\ pc = "resolve"
  /\ LET branch == AliasBranch(store) IN
       /\ alias' = branch
       /\ logs' = logs \o DeprecationWarnings(branch)
       /\ serviceConfig' = MergeFromStore(serviceConfig, store, branch, "config")
       /\ loggerSettings' = MergeFromStore(loggerSettings, store, branch, "logger")
  /\ steps' = Append(steps, "resolve")
  /\ pc' = After(pc)
  /\ UNCHANGED << store, webApiSettings, broker, gateway, uncaught, childBindings >>
  /\ UNCHANGED facadeVars

\* serviceConfig.logger = (bindings) => serviceLogger.child(...), then the trace
InstallLoggerFactory ==
  /\ pc = "logger"
  /\ serviceConfig' =
       Map([k \in DOMAIN serviceConfig.ent \cup {"logger"} |->
              IF k = "logger" THEN Fn("loggerFactory:" \o alias)
              ELSE serviceConfig.ent[k]])
  /\ logs' = Append(logs, LogEntry("trace", "Configuring moleculer service", alias))
  /\ steps' = Append(steps, "logger")
  /\ pc' = After(pc)
  /\ UNCHANGED << store, alias, loggerSettings, webApiSettings, broker, gateway,
                  uncaught, childBindings >>
  /\ UNCHANGED facadeVars

\* new Moleculer.ServiceBroker(serviceConfig); a throw leaves the module
ConstructBroker ==
  /\ pc = "construct"
  /\ steps' = Append(steps, "construct")
  /\ \E outcome \in {"ok", "throws"} :
       IF outcome = "ok"
       THEN /\ broker' = [broker EXCEPT !.constructed = TRUE,
                                        !.options = serviceConfig]
            /\ pc' = After(pc)
            /\ uncaught' = uncaught
       ELSE /\ pc' = "raised"
            /\ uncaught' = "BrokerOptionsError"
            /\ broker' = broker
  /\ UNCHANGED << store, alias, serviceConfig, loggerSettings, webApiSettings,
                  gateway, logs, childBindings >>
  /\ UNCHANGED facadeVars

\* broker.start()
StartBroker ==
  /\ pc = "start"
  /\ broker' = [broker EXCEPT !.started = TRUE]
  /\ steps' = Append(steps, "start")
  /\ pc' = After(pc)
  /\ UNCHANGED << store, alias, serviceConfig, loggerSettings, webApiSettings,
                  gateway, uncaught, logs, childBindings >>
  /\ UNCHANGED facadeVars

\* The condition guarding the moleculer-web block
WebApiEnabled(s) ==
  \/ Has(s, <<"usMoleculer", "enableWebApi">>)
       /\ Truthy(Get(s, <<"usMoleculer", "enableWebApi">>))
  \/ Has(s, <<"mol-service", "enableWebApi">>)
       /\ Truthy(Get(s, <<"mol-service", "enableWebApi">>))

\* The if / else-if merging the application's webApiSettings
MergedWebApiSettings(w, s) ==
  IF Has(s, <<"usMoleculer", "webApiSettings">>)
  THEN Merge(w, Get(s, <<"usMoleculer", "webApiSettings">>))
  ELSE IF Has(s, <<"mol-service", "webApiSettings">>)
       THEN Merge(w, Get(s, <<"mol-service", "webApiSettings">>))
       ELSE w

GatewayErrorMsg ==
  "Failed to start moleculer web module, ensure it is added to your main project as a dependency"

\* The moleculer-web block without its try / catch: a failure leaves the module.
AttachGatewayNoCatch ==
  /\ pc = "gateway"
  /\ IF WebApiEnabled(store)
     THEN /\ webApiSettings' = MergedWebApiSettings(webApiSettings, store)
          /\ steps' = Append(steps, "gateway")
          /\ \E outcome \in {"ok", "loadFailed", "createFailed"} :
               IF outcome = "ok"
               THEN /\ broker' = [broker EXCEPT !.services =
                                    Append(@, [mixins |-> "moleculer-web",
                                               settings |-> webApiSettings'])]
                    /\ gateway' = "attached"
                    /\ pc' = After(pc)
                    /\ UNCHANGED << logs, uncaught >>
               ELSE /\ gateway' = outcome
                    /\ pc' = "raised"
                    /\ uncaught' = outcome
                    /\ UNCHANGED << logs, broker >>
     ELSE /\ pc' = After(pc)
          /\ UNCHANGED << webApiSettings, steps, broker, gateway, logs, uncaught >>
  /\ UNCHANGED << store, alias, serviceConfig, loggerSettings, childBindings >>
  /\ UNCHANGED facadeVars

\* The moleculer-web block: require('moleculer-web') and broker.createService
\* inside try / catch, guarded by the enableWebApi condition
AttachGateway ==
  /\ pc = "gateway"
  /\ IF WebApiEnabled(store)
     THEN /\ webApiSettings' = MergedWebApiSettings(webApiSettings, store)
          /\ steps' = Append(steps, "gateway")
          /\ \E outcome \in {"ok", "loadFailed", "createFailed"} :
               IF outcome = "ok"
               THEN /\ broker' = [broker EXCEPT !.services =
                                    Append(@, [mixins |-> "moleculer-web",
                                               settings |-> webApiSettings'])]
                    /\ gateway' = "attached"
                    /\ logs' = logs
               ELSE /\ gateway' = outcome
                    /\ logs' = Append(logs, LogEntry("error", GatewayErrorMsg, outcome))
                    /\ broker' = broker
          /\ pc' = After(pc)
     ELSE /\ pc' = After(pc)
          /\ UNCHANGED << webApiSettings, steps, broker, gateway, logs >>
  /\ UNCHANGED << store, alias, serviceConfig, loggerSettings, uncaught,
                  childBindings >>
  /\ UNCHANGED facadeVars

\* Bindings the broker passes to the logger factory
BrokerBindings ==
  { Map(("mod" :> Str("broker")) @@ ("nodeID" :> Str("node-1"))),
    Map(("mod" :> Str("transit")) @@ ("level" :> Str("trace"))) }

\* The function installed as serviceConfig.logger
LoggerFactory(bindings) == Merge(bindings, loggerSettings)

\* The broker asks the installed factory for a logger
BrokerGetLogger ==
  /\ broker.constructed
  /\ "logger" \in DOMAIN broker.options.ent
  /\ \E b \in BrokerBindings :
       /\ [ctx |-> alias, bindings |-> LoggerFactory(b)] \notin childBindings
       /\ childBindings' = childBindings \cup
            {[ctx |-> alias, bindings |-> LoggerFactory(b)]}
  /\ UNCHANGED << logs >>
  /\ UNCHANGED startupVars
  /\ UNCHANGED facadeVars

----------------------------------------------------------------------------
(* Objects of the host application.  heap[id] holds the own properties of  *)
(* the object with identity id; a property may refer to another object.    *)

MaxInvocations == 2
MaxMutations == 1

CallerHeap ==
  << ("id" :> Num(7)) @@ ("filter" :> Ref(2)),   \* 1: a parameter object
     ("status" :> Str("open")),                  \* 2: nested in object 1
     ("pipe" :> Fn("pipe")),                     \* 3: a stream
     ("timeout" :> Num(500)) >>                  \* 4: call options

CallInputs ==
  { <<"orders.get", Ref(1), Ref(4)>>,
    <<"orders.get", Ref(2), Undefined>>,
    <<"files.save", Ref(3), Undefined>>,
    <<"nodes.list", Undefined, Ref(4)>> }

EventInputs == { <<"order.created", Ref(1), Str("billing")>> }

\* Failures of broker.call: rejected at once, or after the request was sent
EarlyErrors == {"ServiceNotFoundError"}

LateErrors == {"RequestTimeoutError"}

----------------------------------------------------------------------------
(* The call facade *)

\* isStream(callParams): an object whose pipe property is a function
IsStream(h, v) ==
  /\ v.kind = "ref"
  /\ "pipe" \in DOMAIN h[v.id]
  /\ h[v.id]["pipe"].kind = "fn"

\* The own enumerable properties Object.assign copies from its source
OwnProps(h, v) == IF v.kind = "ref" THEN h[v.id] ELSE <<>>

\* The parameters are handed on as they are, without the copy.
NormalizeParamsNoCopy(h, callParams) == [heap |-> h, value |-> callParams]

\* The stream test is missing: every parameter value is copied.
NormalizeParamsNoStreamTest(h, callParams) ==
  [heap |-> Append(h, OwnProps(h, callParams)), value |-> Ref(Len(h) + 1)]

\* let finalCallParams: the stream itself, or Object.assign({}, callParams);
\* gives the heap after the statement and the value of finalCallParams
NormalizeParams(h, callParams) ==
  IF IsStream(h, callParams)
  THEN [heap |-> h, value |-> callParams]
  ELSE [heap |-> Append(h, OwnProps(h, callParams)), value |-> Ref(Len(h) + 1)]

\* The options are handed on as they are, without the copy.
NormalizeOptionsNoCopy(h, callOptions) == [heap |-> h, value |-> callOptions]

\* const finalCallOptions = Object.assign({}, callOptions)
NormalizeOptions(h, callOptions) ==
  [heap |-> Append(h, OwnProps(h, callOptions)), value |-> Ref(Len(h) + 1)]

\* The promise derived by .catch is returned in place of callResult.
ReturnedPromiseDerived(callResult, derived) == derived

\* return callResult
ReturnedPromise(callResult, derived) == callResult

Reaction(handler, inv, derived) ==
  [handler |-> handler, inv |-> inv, derived |-> derived]

Job(r, state, val) ==
  [handler |-> r.handler, inv |-> r.inv, derived |-> r.derived,
   state |-> state, val |-> val]

\* The jobs a settled promise queues for its reactions, in registration order
SettleJobs(reactions, state, val) ==
  [j \in 1..Len(reactions) |-> Job(reactions[j], state, val)]

Pending == [state |-> "pending", val |-> "none", reactions |-> <<>>]

Settled(state, val) == [state |-> state, val |-> val, reactions |-> <<>>]

\* function call (actionName, callParams, callOptions)
Call ==
  /\ pc = "done"
  /\ Len(invocations) < MaxInvocations
  /\ \E in \in CallInputs, early \in {"pending"} \cup EarlyErrors :
       LET actionName == in[1]
           callParams == in[2]
           callOptions == in[3]
           inv == Len(invocations) + 1
           params == NormalizeParams(heap, callParams)
           finalCallParams == params.value
           options == NormalizeOptions(params.heap, callOptions)
           finalCallOptions == options.value
           callResult == Len(promises) + 1
           derived == Len(promises) + 2
           reaction == Reaction("facadeCatch", inv, derived)
       IN
         /\ logs' = Append(logs, LogEntry("trace", "call", actionName))
         /\ heap' = options.heap
         /\ brokerOps' = Append(brokerOps,
              [op |-> "call", name |-> actionName, params |-> finalCallParams,
               opts |-> finalCallOptions, promise |-> callResult])
         /\ IF early = "pending"
            THEN /\ promises' = promises \o
                      << [Pending EXCEPT !.reactions = <<reaction>>], Pending >>
                 /\ microtasks' = microtasks
            ELSE /\ promises' = promises \o << Settled("rejected", early), Pending >>
                 /\ microtasks' = Append(microtasks, Job(reaction, "rejected", early))
         /\ invocations' = Append(invocations,
              [op |-> "call", name |-> actionName, params |-> callParams,
               opts |-> callOptions,
               returned |-> ReturnedPromise(callResult, derived),
               attached |-> FALSE])
  /\ UNCHANGED << mutations, observed, childBindings >>
  /\ UNCHANGED startupVars

\* function emit (eventName, payload, groups)
Emit ==
  /\ pc = "done"
  /\ Len(invocations) < MaxInvocations
  /\ \E in \in EventInputs :
       /\ logs' = Append(logs, LogEntry("trace", "emit", in[1]))
       /\ brokerOps' = Append(brokerOps,
            [op |-> "emit", name |-> in[1], params |-> in[2], opts |-> in[3],
             promise |-> 0])
       /\ invocations' = Append(invocations,
            [op |-> "emit", name |-> in[1], params |-> in[2], opts |-> in[3],
             returned |-> 0, attached |-> FALSE])
  /\ UNCHANGED << heap, promises, microtasks, mutations, observed, childBindings >>
  /\ UNCHANGED startupVars

\* function broadcast (eventName, payload, groups)
Broadcast ==
  /\ pc = "done"
  /\ Len(invocations) < MaxInvocations
  /\ \E in \in EventInputs :
       /\ logs' = Append(logs, LogEntry("trace", "broadcast", in[1]))
       /\ brokerOps' = Append(brokerOps,
            [op |-> "broadcast", name |-> in[1], params |-> in[2],
             opts |-> in[3], promise |-> 0])
       /\ invocations' = Append(invocations,
            [op |-> "broadcast", name |-> in[1], params |-> in[2],
             opts |-> in[3], returned |-> 0, attached |-> FALSE])
  /\ UNCHANGED << heap, promises, microtasks, mutations, observed, childBindings >>
  /\ UNCHANGED startupVars

\* The caller registers its handler on the promise call returned
CallerAttach ==
  /\ \E i \in 1..Len(invocations) :
       /\ invocations[i].op = "call"
       /\ ~invocations[i].attached
       /\ invocations' = [invocations EXCEPT ![i].attached = TRUE]
       /\ LET p == invocations[i].returned
              r == Reaction("caller", i, 0)
          IN IF promises[p].state = "pending"
             THEN /\ promises' = [promises EXCEPT ![p].reactions = Append(@, r)]
                  /\ microtasks' = microtasks
             ELSE /\ promises' = promises
                  /\ microtasks' =
                       Append(microtasks, Job(r, promises[p].state, promises[p].val))
  /\ UNCHANGED << heap, brokerOps, mutations, observed, logs, childBindings >>
  /\ UNCHANGED startupVars

\* The broker settles the promise of one of its pending calls
BrokerSettle ==
  /\ \E i \in 1..Len(brokerOps) :
       /\ brokerOps[i].op = "call"
       /\ promises[brokerOps[i].promise].state = "pending"
       /\ \E out \in {<<"fulfilled", "result">>} \cup
                      {<<"rejected", e>> : e \in LateErrors} :
            LET p == brokerOps[i].promise IN
              /\ promises' = [promises EXCEPT ![p] = Settled(out[1], out[2])]
              /\ microtasks' = microtasks \o
                   SettleJobs(promises[p].reactions, out[1], out[2])
  /\ UNCHANGED << heap, invocations, brokerOps, mutations, observed, logs,
                  childBindings >>
  /\ UNCHANGED startupVars

\* The promise job queue runs its oldest job: the handler given to
\* callResult.catch, or a handler of the caller
RunMicrotask ==
  /\ microtasks # <<>>
  /\ LET job == Head(microtasks) IN
       IF job.handler = "facadeCatch"
       THEN LET val == IF job.state = "rejected" THEN "undefined" ELSE job.val IN
              /\ logs' =
                   IF job.state = "rejected"
                   THEN Append(logs,
                          LogEntry("error",
                                   "Error calling " \o invocations[job.inv].name,
                                   job.val))
                   ELSE logs
              /\ promises' = [promises EXCEPT ![job.derived] =
                                Settled("fulfilled", val)]
              /\ microtasks' = Tail(microtasks) \o
                   SettleJobs(promises[job.derived].reactions, "fulfilled", val)
              /\ observed' = observed
       ELSE /\ observed' = observed \cup
                 {[inv |-> job.inv, state |-> job.state, val |-> job.val]}
            /\ microtasks' = Tail(microtasks)
            /\ UNCHANGED << logs, promises >>
  /\ UNCHANGED << heap, invocations, brokerOps, mutations, childBindings >>
  /\ UNCHANGED startupVars

\* Objects the broker reaches from a value in d steps
RECURSIVE ReachableAt(_, _, _)
ReachableAt(h, v, d) ==
  IF v.kind # "ref" THEN {}
  ELSE IF d = 0 THEN {v.id}
  ELSE UNION { ReachableAt(h, h[v.id][k], d - 1) : k \in DOMAIN h[v.id] }

\* The broker writes a property of an object reachable from the parameters
\* it was handed
BrokerMutate ==
  /\ Len(mutations) < MaxMutations
  /\ \E i \in 1..Len(brokerOps), d \in {0, 1}, key \in {"id"} :
       \E target \in ReachableAt(heap, brokerOps[i].params, d) :
         /\ brokerOps[i].op = "call"
         /\ heap' = [heap EXCEPT ![target] =
                       [k \in DOMAIN @ \cup {key} |->
                          IF k = key THEN Str("set-by-broker") ELSE @[k]]]
         /\ heap' # heap
         /\ mutations' = Append(mutations,
              [op |-> i, target |-> target, depth |-> d, key |-> key])
  /\ UNCHANGED << promises, microtasks, invocations, brokerOps, observed, logs,
                  childBindings >>
  /\ UNCHANGED startupVars

InitModule ==
  /\ pc = "resolve"
  /\ alias = "none"
  /\ serviceConfig = DefaultServiceConfig
  /\ loggerSettings = DefaultLoggerSettings
  /\ webApiSettings = DefaultWebApiSettings
  /\ broker = NoBroker
  /\ gateway = "none"
  /\ uncaught = "none"
  /\ steps = <<>>
  /\ logs = <<>>
  /\ childBindings = {}
  /\ heap = CallerHeap
  /\ promises = <<>>
  /\ microtasks = <<>>
  /\ invocations = <<>>
  /\ brokerOps = <<>>
  /\ mutations = <<>>
  /\ observed = {}

InitStartup == store \in ConfigStores /\ InitModule

NextStartup ==
  \/ ResolveConfig
  \/ InstallLoggerFactory
  \/ ConstructBroker
  \/ StartBroker
  \/ AttachGateway
  \/ BrokerGetLogger

SpecStartup == InitStartup /\ [][NextStartup]_vars

\* A store that enables the gateway, under which the facade is exercised
FacadeStores ==
  { StoreOf(Undefined,
            Map(("config" :> Map("namespace" :> Str("usMoleculer"))) @@
                ("enableWebApi" :> Bool(TRUE))),
            Undefined) }

InitFacade == store \in FacadeStores /\ InitModule

\* Initialisation, the facade and a broker that writes to what it is handed
NextFacade ==
  \/ ResolveConfig
  \/ InstallLoggerFactory
  \/ ConstructBroker
  \/ StartBroker
  \/ AttachGateway
  \/ Call
  \/ Emit
  \/ Broadcast
  \/ BrokerMutate

SpecFacade == InitFacade /\ [][NextFacade]_vars

\* A store under the current alias root, under which calls are settled
AsyncStores ==
  { StoreOf(Map(("logger" :> Map("level" :> Str("debug-mfuses"))) @@
                ("enableWebApi" :> Bool(FALSE))),
            Undefined, Undefined) }

InitAsync == store \in AsyncStores /\ InitModule

\* Initialisation, the facade, the broker settling calls and the job queue
NextAsync ==
  \/ ResolveConfig
  \/ InstallLoggerFactory
  \/ ConstructBroker
  \/ StartBroker
  \/ AttachGateway
  \/ Call
  \/ Emit
  \/ Broadcast
  \/ CallerAttach
  \/ BrokerSettle
  \/ RunMicrotask

SpecAsync == InitAsync /\ [][NextAsync]_vars

----------------------------------------------------------------------------
(* Notions the properties below are stated in *)

\* The chosen alias root: the first present of mfuses, usMoleculer, mol-service
ChosenRoot(s) ==
  IF Has(s, <<"mfuses">>) THEN "mfuses"
  ELSE IF Has(s, <<"usMoleculer">>) THEN "usMoleculer"
  ELSE IF Has(s, <<"mol-service">>) THEN "mol-service"
  ELSE "none"

ChosenHas(s, path) == ChosenRoot(s) # "none" /\ Has(s, <<ChosenRoot(s)>> \o path)

ChosenGet(s, path) == Get(s, <<ChosenRoot(s)>> \o path)

\* The record without its logger factory field
WithoutLogger(c) == Map([k \in DOMAIN c.ent \ {"logger"} |-> c.ent[k]])

\* The leaves of a nested mapping, each with its key path
RECURSIVE Leaves(_, _)
Leaves(t, prefix) ==
  IF t.kind = "map"
  THEN UNION { Leaves(t.ent[k], Append(prefix, k)) : k \in DOMAIN t.ent }
  ELSE { <<prefix, t>> }

\* The override names the path: it holds a value there, or a leaf above it
Named(o, path) ==
  \E n \in 1..Len(path) :
    /\ Has(o, SubSeq(path, 1, n))
    /\ n = Len(path) \/ Get(o, SubSeq(path, 1, n)).kind # "map"

IsPrefix(s, t) == Len(s) <= Len(t) /\ s = SubSeq(t, 1, Len(s))

Resolved == pc # "resolve"

WarningCount == Cardinality({i \in 1..Len(logs) : logs[i].level = "warn"})

----------------------------------------------------------------------------
(* Properties *)

\* C1: the gateway module is attached (load and createService attempted) if and
\* only if the enableWebApi flag under the chosen alias root is true; a flag
\* under a root that was not chosen has no effect.
C1_GatewayIffChosenFlag ==
  pc = "done" =>
    (gateway # "none" <=>
       (ChosenHas(store, <<"enableWebApi">>)
          /\ ChosenGet(store, <<"enableWebApi">>) = Bool(TRUE)))

\* C2: the config and logger sub-trees merged into the resolved record come only
\* from the first alias root present (mfuses, usMoleculer, mol-service); values
\* under the other roots do not influence the service configuration or the
\* logger settings.
C2_OnlyChosenRootMerged ==
  Resolved =>
    /\ WithoutLogger(serviceConfig) =
         (IF ChosenHas(store, <<"config">>)
          THEN Merge(DefaultServiceConfig, ChosenGet(store, <<"config">>))
          ELSE DefaultServiceConfig)
    /\ loggerSettings =
         (IF ChosenHas(store, <<"logger">>)
          THEN Merge(DefaultLoggerSettings, ChosenGet(store, <<"logger">>))
          ELSE DefaultLoggerSettings)

C2_Witness ==
  /\ pc = "done"
  /\ Has(store, <<"mfuses", "config", "namespace">>)
  /\ Has(store, <<"usMoleculer", "config", "namespace">>)
  /\ Has(store, <<"mol-service", "logger", "level">>)
  /\ Get(serviceConfig, <<"namespace">>) = Str("mfuses")

\* C3: exactly one deprecation warning is logged when the chosen alias root is
\* usMoleculer or mol-service, and none when mfuses is chosen or when no alias
\* root is present.
C3_WarningOnlyForDeprecatedAlias ==
  Resolved =>
    WarningCount =
      (IF ChosenRoot(store) \in {"usMoleculer", "mol-service"} THEN 1 ELSE 0)

\* C4: the resolved service configuration is the defaults with every leaf the
\* override names replaced by the override's value and every other default leaf
\* preserved, nested mappings being merged and not replaced.
C4_MergePreservesDefaults ==
  (Resolved /\ ChosenHas(store, <<"config">>)) =>
    LET o == ChosenGet(store, <<"config">>) IN
      /\ Leaves(WithoutLogger(serviceConfig), <<>>) =
           Leaves(o, <<>>) \cup
             { l \in Leaves(DefaultServiceConfig, <<>>) : ~Named(o, l[1]) }
      /\ o = Map("namespace" :> Str(ChosenRoot(store))) =>
           /\ Get(serviceConfig, <<"namespace">>) = Str(ChosenRoot(store))
           /\ Get(serviceConfig, <<"transporter">>) = Str("TCP")
           /\ Get(serviceConfig, <<"registry", "strategy">>) = Str("Random")

C4_Witness ==
  /\ pc = "done"
  /\ ChosenHas(store, <<"config", "registry", "preferLocal">>)
  /\ Has(serviceConfig, <<"registry", "preferLocal">>)
  /\ Has(serviceConfig, <<"registry", "strategy">>)
  /\ Get(serviceConfig, <<"transporter", "type">>) = Str("NATS")

\* C9: when the chosen alias root does not set logger.level, the logger settings
\* the factory merges into the broker's bindings contain level = "info"; when it
\* is set, that value is used.
C9_LoggerLevelDefaultsToInfo ==
  Resolved =>
    /\ Has(loggerSettings, <<"level">>)
    /\ Get(loggerSettings, <<"level">>) =
         (IF ChosenHas(store, <<"logger", "level">>)
          THEN ChosenGet(store, <<"logger", "level">>)
          ELSE Str("info"))
    /\ \A c \in childBindings : Has(c.bindings, <<"level">>)

\* C10: the initialisation steps run once each in the order resolution, logger
\* factory, broker construction, broker start, optional gateway attachment; the
\* broker is built from the completely merged record, which is not modified
\* afterwards.
C10_StartupOrder ==
  /\ IsPrefix(steps, <<"resolve", "logger", "construct", "start", "gateway">>)
  /\ pc = "done" => Len(steps) >= 4
  /\ broker.started => broker.constructed
  /\ gateway # "none" => broker.started
  /\ broker.constructed =>
       /\ broker.options = serviceConfig
       /\ Has(broker.options, <<"logger">>)
       /\ Get(broker.options, <<"logger">>).kind = "fn"
       /\ WithoutLogger(broker.options) =
            MergeFromStore(DefaultServiceConfig, store, alias, "config")
       /\ loggerSettings =
            MergeFromStore(DefaultLoggerSettings, store, alias, "logger")

C10_Witness ==
  /\ pc = "done"
  /\ steps = <<"resolve", "logger", "construct", "start", "gateway">>
  /\ gateway = "attached"
  /\ broker.options # DefaultServiceConfig
  /\ Len(broker.services) = 1

\* The objects reachable from a value
ReachableFrom(h, v) == UNION { ReachableAt(h, v, d) : d \in 0..Len(h) }

\* A call invocation whose callParams is an object that is not a stream
PlainObjectCall(h, inv) ==
  /\ inv.op = "call"
  /\ inv.params.kind = "ref"
  /\ ~IsStream(h, inv.params)

CallStep == Len(invocations') = Len(invocations) + 1

MutateStep == Len(mutations') = Len(mutations) + 1

ErrorLogs(name, e) ==
  { k \in 1..Len(logs) : logs[k] = LogEntry("error", "Error calling " \o name, e) }

ObservedRejections(name, e) ==
  { o \in observed :
      o.state = "rejected" /\ o.val = e /\ invocations[o.inv].name = name }

\* C5 (as claimed): no write the broker performs through the object it was
\* handed, at any depth of the parameter structure, changes the caller's
\* original callParams object.
C5_NoMutationReachesOriginal ==
  [][MutateStep =>
       LET m == mutations'[Len(mutations')] IN
         PlainObjectCall(heap, invocations[m.op]) =>
           \A id \in ReachableFrom(heap, invocations[m.op].params) :
             heap'[id] = heap[id]]_vars

\* C5 (amended): the object handed to broker.call is a fresh object holding the
\* own properties of callParams, and no write the broker performs on the own
\* properties of that copy changes the caller's original object or anything
\* reachable from it.
C5_CopyIsDistinctAtTopLevel ==
  [][/\ CallStep =>
          LET i == Len(invocations') IN
            PlainObjectCall(heap, invocations'[i]) =>
              /\ brokerOps'[i].params.kind = "ref"
              /\ brokerOps'[i].params.id \notin 1..Len(heap)
              /\ heap'[brokerOps'[i].params.id] = heap[invocations'[i].params.id]
              /\ \A id \in 1..Len(heap) : heap'[id] = heap[id]
     /\ MutateStep =>
          LET m == mutations'[Len(mutations')] IN
            (PlainObjectCall(heap, invocations[m.op]) /\ m.depth = 0) =>
              /\ m.target = brokerOps[m.op].params.id
              /\ \A id \in ReachableFrom(heap, invocations[m.op].params) :
                   heap'[id] = heap[id]]_vars

C5_Witness ==
  \E k \in 1..Len(mutations) :
    /\ mutations[k].depth = 0
    /\ invocations[mutations[k].op].params = Ref(1)
    /\ heap[brokerOps[mutations[k].op].params.id]["id"] = Str("set-by-broker")
    /\ heap[1]["id"] = Num(7)

\* C6: when the broker's call fails with error e, the promise call returned
\* rejects with e, and the error entry naming the action is logged before the
\* caller's handler observes the rejection.
C6_RejectionSurfacesAfterLog ==
  /\ \A i \in 1..Len(invocations) :
       invocations[i].op = "call" =>
         LET callResult == promises[brokerOps[i].promise]
             returned == promises[invocations[i].returned]
         IN callResult.state = "rejected" =>
              /\ returned.state = "rejected"
              /\ returned.val = callResult.val
              /\ \A o \in observed :
                   o.inv = i => o.state = "rejected" /\ o.val = callResult.val
  /\ \A i \in 1..Len(invocations), e \in EarlyErrors \cup LateErrors :
       Cardinality(ObservedRejections(invocations[i].name, e))
         <= Cardinality(ErrorLogs(invocations[i].name, e))

C6_Witness ==
  \E o \in observed :
    /\ o.state = "rejected"
    /\ o.val = "RequestTimeoutError"
    /\ ErrorLogs(invocations[o.inv].name, o.val) # {}

\* C7: a failure to load or attach the gateway module is caught and logged at
\* error level; initialisation completes, the started broker stays started and
\* call / emit / broadcast keep delegating to it.  No other failure of the
\* initialisation is caught.
C7_GatewayFailureContained ==
  /\ gateway \in {"loadFailed", "createFailed"} =>
       /\ pc = "done"
       /\ uncaught = "none"
       /\ broker.constructed /\ broker.started
       /\ broker.services = <<>>
       /\ \E k \in 1..Len(logs) :
            logs[k] = LogEntry("error", GatewayErrorMsg, gateway)
       /\ Len(brokerOps) = Len(invocations)
       /\ \A i \in 1..Len(invocations) :
            /\ brokerOps[i].op = invocations[i].op
            /\ brokerOps[i].name = invocations[i].name
  /\ uncaught # "none" =>
       /\ pc = "raised"
       /\ uncaught = "BrokerOptionsError"
       /\ gateway = "none"
       /\ \A k \in 1..Len(logs) : logs[k].level # "error"
       /\ invocations = <<>>
  /\ invocations # <<>> => pc = "done"

C7_Witness ==
  /\ gateway = "loadFailed"
  /\ broker.started
  /\ \E i, j \in 1..Len(brokerOps) :
       brokerOps[i].op = "call" /\ brokerOps[j].op \in {"emit", "broadcast"}

\* C8: a stream callParams is handed to broker.call as the identical reference,
\* while callOptions is handed on as a fresh copy, empty when callOptions is
\* absent.
C8_StreamForwardedOptionsCopied ==
  \A i \in 1..Len(invocations) :
    (invocations[i].op = "call" /\ IsStream(heap, invocations[i].params)) =>
      /\ brokerOps[i].params = invocations[i].params
      /\ brokerOps[i].opts.kind = "ref"
      /\ brokerOps[i].opts # invocations[i].opts
      /\ brokerOps[i].opts.id \notin 1..Len(CallerHeap)
      /\ \A j \in 1..Len(brokerOps) :
           j # i => brokerOps[j].opts # brokerOps[i].opts
      /\ heap[brokerOps[i].opts.id] = OwnProps(heap, invocations[i].opts)
      /\ invocations[i].opts = Undefined => heap[brokerOps[i].opts.id] = <<>>

C8_Witness ==
  \E i \in 1..Len(invocations) :
    /\ invocations[i].op = "call"
    /\ invocations[i].params = Ref(3)
    /\ brokerOps[i].params = Ref(3)
    /\ invocations[i].opts = Undefined
    /\ \E k \in 1..Len(mutations) : mutations[k].target = 3

\* module.exports.serviceBroker = broker
serviceBroker == broker

\* module.exports.mfusesBroker = broker
mfusesBroker == broker

\* The objects a call invocation built for the broker: its options copy, and
\* its parameters copy unless the parameters are a stream
CopiesOf(h, i) ==
  IF invocations[i].op # "call" THEN {}
  ELSE {brokerOps[i].opts} \cup
       (IF IsStream(h, invocations[i].params) THEN {} ELSE {brokerOps[i].params})

\* C11: under any interleaving of call, emit and broadcast invocations the broker
\* handle is never replaced or changed, every invocation issues exactly one
\* broker primitive invocation of its kind and none is issued otherwise (no
\* retries), and the copies one call builds are fresh objects, distinct from
\* those of every other invocation; the facade writes no object that existed
\* before the invocation.
C11_InvocationsShareNoState ==
  [][/\ pc = "done" =>
          /\ pc' = "done"
          /\ serviceBroker' = broker
          /\ mfusesBroker' = broker
     /\ Len(brokerOps') = Len(brokerOps) + (IF CallStep THEN 1 ELSE 0)
     /\ SubSeq(brokerOps', 1, Len(brokerOps)) = brokerOps
     /\ CallStep =>
          LET i == Len(invocations') IN
            /\ Len(brokerOps') = i
            /\ brokerOps'[i].op = invocations'[i].op
            /\ brokerOps'[i].name = invocations'[i].name
            /\ \A id \in 1..Len(heap) : heap'[id] = heap[id]
            /\ invocations'[i].op # "call" =>
                 /\ heap' = heap
                 /\ brokerOps'[i].params = invocations'[i].params
                 /\ brokerOps'[i].opts = invocations'[i].opts
            /\ invocations'[i].op = "call" =>
                 /\ brokerOps'[i].opts.kind = "ref"
                 /\ brokerOps'[i].opts.id \in (1..Len(heap')) \ (1..Len(heap))
                 /\ ~IsStream(heap, invocations'[i].params) =>
                      /\ brokerOps'[i].params.kind = "ref"
                      /\ brokerOps'[i].params.id \in (1..Len(heap')) \ (1..Len(heap))
                      /\ brokerOps'[i].params # brokerOps'[i].opts
     /\ \A i, j \in 1..Len(invocations') :
          i # j => (CopiesOf(heap, i) \cap CopiesOf(heap, j))' = {}]_vars

C11_Witness ==
  /\ Len(invocations) = 2
  /\ \A i \in 1..2 :
       /\ invocations[i].op = "call"
       /\ invocations[i].params = Ref(1)
       /\ invocations[i].opts = Ref(4)
       /\ promises[brokerOps[i].promise].state = "pending"
  /\ brokerOps[1].params # brokerOps[2].params
  /\ brokerOps[1].opts # brokerOps[2].opts
  /\ heap[brokerOps[1].params.id] = heap[brokerOps[2].params.id]
  /\ broker.started

====
